---------------------------- MODULE Spec2Model ----------------------------
(***************************************************************************)
(* A model of chatterbot/ext/django_chatterbot/models.py: the Statement    *)
(* and Response records and the convenience methods of Statement           *)
(* (add_extra_data, add_response, remove_response, get_response_count,     *)
(* serialize).                                                             *)
(*                                                                         *)
(* The Response table is a sequence of rows in primary-key order.  The     *)
(* extra_data field of a Statement is a JSON text; json.dumps and          *)
(* json.loads are modelled by what they do to Python keys and values.      *)
(***************************************************************************)
EXTENDS Integers, Sequences, FiniteSets

(***************************************************************************)
(* Bounds of the model.                                                    *)
(***************************************************************************)
NumStatements == 2

MaxCalls == 2

MaxProcCalls == 2

NumProcs == 2

Stmts == 1 .. NumStatements

Procs == 1 .. NumProcs

(***************************************************************************)
(* Statement.text is unique: statement s has the s-th text of the pool.    *)
(* NoSuchText is a text no statement has.                                  *)
(***************************************************************************)
TextPool == <<"hello", "hi", "bye", "thanks", "sorry">>

NoSuchText == "unknown"

StatementText(s) == TextPool[s]

Texts == {StatementText(s) : s \in Stmts} \cup {NoSuchText}

(***************************************************************************)
(* Python values handed to add_extra_data.  A value is a tagged payload:   *)
(* t is the Python type, v the content.                                    *)
(***************************************************************************)
PyKeys ==
    { [t |-> "str", v |-> "a"], [t |-> "str", v |-> "1"], [t |-> "int", v |-> "1"] }

PyValues ==
    { [t |-> "str", v |-> "x"], [t |-> "tuple", v |-> "7,8"] }

NoKey == [t |-> "none", v |-> ""]

NoValue == [t |-> "none", v |-> ""]

(***************************************************************************)
(* The CharField extra_data: the empty string (blank, falsy in Python) or  *)
(* the text of a JSON object, a sequence of name/value members.            *)
(***************************************************************************)
EmptyText == [blank |-> TRUE, members |-> <<>>]

ObjectText(ms) == [blank |-> FALSE, members |-> ms]

(***************************************************************************)
(* json.dumps: a dict key that is an int is written as its decimal string; *)
(* str -> string, int -> number, tuple and list -> array.                  *)
(***************************************************************************)
JsonKeyName(k) == k.v

JsonEncodeValue(pv) ==
    CASE pv.t = "str"   -> [t |-> "string", v |-> pv.v]
      [] pv.t = "int"   -> [t |-> "number", v |-> pv.v]
      [] pv.t = "tuple" -> [t |-> "array", v |-> pv.v]
      [] pv.t = "list"  -> [t |-> "array", v |-> pv.v]

(***************************************************************************)
(* json.loads: string -> str, number -> int, array -> list; every member   *)
(* name becomes a str key.                                                 *)
(***************************************************************************)
JsonDecodeValue(jv) ==
    CASE jv.t = "string" -> [t |-> "str", v |-> jv.v]
      [] jv.t = "number" -> [t |-> "int", v |-> jv.v]
      [] jv.t = "array"  -> [t |-> "list", v |-> jv.v]

(***************************************************************************)
(* A Python dict: a sequence of entries with distinct keys, in insertion   *)
(* order.  DictSet is d[k] = v: an existing key keeps its place.           *)
(***************************************************************************)
DictHas(d, k) == \E i \in DOMAIN d : d[i].k = k

DictGet(d, k) == d[CHOOSE i \in DOMAIN d : d[i].k = k].v

DictSet(d, k, pv) ==
    IF DictHas(d, k)
    THEN [i \in DOMAIN d |-> IF d[i].k = k THEN [k |-> k, v |-> pv] ELSE d[i]]
    ELSE Append(d, [k |-> k, v |-> pv])

DictItems(d) == {d[i] : i \in DOMAIN d}

DictKeys(d) == {d[i].k : i \in DOMAIN d}

RECURSIVE JsonLoadsMembers(_, _)
JsonLoadsMembers(ms, d) ==
    IF ms = <<>>
    THEN d
    ELSE JsonLoadsMembers(Tail(ms),
             DictSet(d, [t |-> "str", v |-> Head(ms).name],
                     JsonDecodeValue(Head(ms).val)))

JsonLoads(text) == JsonLoadsMembers(text.members, <<>>)

JsonDumps(d) ==
    ObjectText([i \in DOMAIN d |->
                   [name |-> JsonKeyName(d[i].k), val |-> JsonEncodeValue(d[i].v)]])

(***************************************************************************)
(* State.                                                                  *)
(*   responses   the Response table, rows in primary-key order             *)
(*   extra_data  the extra_data field of each Statement instance           *)
(*   calls       calls[s][r]: add_response calls S.add_response(R) so far  *)
(*   last        the last call made and what it returned                   *)
(*   pc, loc     position and locals of each concurrent add_response       *)
(***************************************************************************)
VARIABLES responses, extra_data, calls, last, pc, loc

vars == <<responses, extra_data, calls, last, pc, loc>>

NoData == [text |-> "", in_response_to |-> 0, extra_data |-> <<>>]

NoCall ==
    [op |-> "none", self |-> 0, stmt |-> 0, text |-> "", key |-> NoKey,
     value |-> NoValue, retBool |-> FALSE, retInt |-> 0, error |-> "none",
     data |-> NoData]

NoLocals == [self |-> 0, response |-> 0, row |-> 0, occurrence |-> 0, done |-> 0]

Init ==
    /\ responses = <<>>
    /\ extra_data = [s \in Stmts |-> EmptyText]
    /\ calls = [s \in Stmts |-> [r \in Stmts |-> 0]]
    /\ last = NoCall
    /\ pc = [p \in Procs |-> "idle"]
    /\ loc = [p \in Procs |-> NoLocals]

(***************************************************************************)
(* Statement.add_extra_data(key, value)                                    *)
(***************************************************************************)
\* mutant: extra_data is reset to '{}' even when it already holds data
AddExtraDataTextReset(text, key, value) ==
    JsonDumps(DictSet(JsonLoads(ObjectText(<<>>)), key, value))

AddExtraDataText(text, key, value) ==
    LET start == IF text.blank THEN ObjectText(<<>>) ELSE text
    IN  JsonDumps(DictSet(JsonLoads(start), key, value))

AddExtraData(s, key, value) ==
    /\ extra_data' = [extra_data EXCEPT ![s] = AddExtraDataText(extra_data[s], key, value)]
    /\ last' = [NoCall EXCEPT !.op = "add_extra_data", !.self = s,
                              !.key = key, !.value = value]
    /\ UNCHANGED <<responses, calls, pc, loc>>

(***************************************************************************)
(* The Response table.  A row is [statement, response, occurrence]; its    *)
(* primary key is its index.  unique_together is an attribute of the class *)
(* Response, outside any Meta class, so the table carries no uniqueness    *)
(* constraint and an insert never fails.                                   *)
(***************************************************************************)
DefaultOccurrence == 1

NewRow(s, r) == [statement |-> s, response |-> r, occurrence |-> DefaultOccurrence]

\* self.in_response_to.all(): the rows whose statement is s
InResponseTo(tbl, s) == {i \in DOMAIN tbl : tbl[i].statement = s}

\* the lookup of get_or_create(statement=self, response=statement)
MatchingPair(tbl, s, r) == {i \in InResponseTo(tbl, s) : tbl[i].response = r}

\* self.in_response_to.filter(response__text=text)
MatchingText(tbl, s, text) ==
    {i \in InResponseTo(tbl, s) : StatementText(tbl[i].response) = text}

\* mutant: create() in place of get_or_create(), a row is always created
CreatedAlways(tbl, s, r) == TRUE

\* the "created" flag of get_or_create: a row is created when none matches
Created(tbl, s, r) == MatchingPair(tbl, s, r) = {}

\* response.occurrence += 1, applied to the object get_or_create returned
Incremented(occurrence) == occurrence + 1

RECURSIVE SumCalls(_, _)
SumCalls(c, pairs) ==
    IF pairs = {}
    THEN 0
    ELSE LET p == CHOOSE q \in pairs : TRUE
         IN  c[p[1]][p[2]] + SumCalls(c, pairs \ {p})

TotalCalls == SumCalls(calls, Stmts \X Stmts)

(***************************************************************************)
(* Statement.add_response(statement), run without interleaving.            *)
(* get_or_create raises MultipleObjectsReturned when several rows match.   *)
(***************************************************************************)
AddResponseTable(tbl, s, r) ==
    IF Created(tbl, s, r)
    THEN Append(tbl, [NewRow(s, r) EXCEPT !.occurrence = Incremented(@)])
    ELSE tbl

AddResponseError(tbl, s, r) ==
    IF Cardinality(MatchingPair(tbl, s, r)) > 1
    THEN "MultipleObjectsReturned"
    ELSE "none"

AddResponse(s, r) ==
    /\ TotalCalls < MaxCalls
    /\ responses' = AddResponseTable(responses, s, r)
    /\ calls' = [calls EXCEPT ![s][r] = @ + 1]
    /\ last' = [NoCall EXCEPT !.op = "add_response", !.self = s, !.stmt = r,
                              !.error = AddResponseError(responses, s, r)]
    /\ UNCHANGED <<extra_data, pc, loc>>

(***************************************************************************)
(* Statement.remove_response(response_text): the query is built and        *)
(* tested with exists(); no row is deleted.                                *)
(***************************************************************************)
RemoveResponseTable(tbl, s, text) == tbl

RemoveResponseResult(tbl, s, text) == MatchingText(tbl, s, text) # {}

RemoveResponse(s, text) ==
    /\ responses' = RemoveResponseTable(responses, s, text)
    /\ last' = [NoCall EXCEPT !.op = "remove_response", !.self = s, !.text = text,
                              !.retBool = RemoveResponseResult(responses, s, text)]
    /\ UNCHANGED <<extra_data, calls, pc, loc>>

(***************************************************************************)
(* Statement.get_response_count(statement): get() raises DoesNotExist,     *)
(* which is caught, or MultipleObjectsReturned, which is not.              *)
(***************************************************************************)
\* mutant: Response.DoesNotExist is not caught
GetResponseCountNoCatch(tbl, s, text) ==
    LET m == MatchingText(tbl, s, text)
    IN  CASE m = {}             -> [error |-> "DoesNotExist", retInt |-> 0]
          [] Cardinality(m) = 1 ->
                 [error |-> "none", retInt |-> tbl[CHOOSE i \in m : TRUE].occurrence]
          [] OTHER              -> [error |-> "MultipleObjectsReturned", retInt |-> 0]

GetResponseCountResult(tbl, s, text) ==
    LET m == MatchingText(tbl, s, text)
    IN  CASE m = {}             -> [error |-> "none", retInt |-> 0]
          [] Cardinality(m) = 1 ->
                 [error |-> "none", retInt |-> tbl[CHOOSE i \in m : TRUE].occurrence]
          [] OTHER              -> [error |-> "MultipleObjectsReturned", retInt |-> 0]

GetResponseCount(s, r) ==
    LET res == GetResponseCountResult(responses, s, StatementText(r))
    IN  /\ last' = [NoCall EXCEPT !.op = "get_response_count", !.self = s, !.stmt = r,
                                  !.text = StatementText(r),
                                  !.retInt = res.retInt, !.error = res.error]
        /\ UNCHANGED <<responses, extra_data, calls, pc, loc>>

(***************************************************************************)
(* Statement.serialize(): a blank extra_data becomes '{}' on the instance; *)
(* the loop calls response.serialize() on each Response row, and Response  *)
(* defines no serialize method.                                            *)
(***************************************************************************)
SerializeText(text) == IF text.blank THEN ObjectText(<<>>) ELSE text

SerializeResult(tbl, s, text) ==
    IF InResponseTo(tbl, s) # {}
    THEN [error |-> "AttributeError", data |-> NoData]
    ELSE [error |-> "none",
          data |-> [text |-> StatementText(s), in_response_to |-> 0,
                    extra_data |-> JsonLoads(SerializeText(text))]]

Serialize(s) ==
    LET res == SerializeResult(responses, s, extra_data[s])
    IN  /\ extra_data' = [extra_data EXCEPT ![s] = SerializeText(@)]
        /\ last' = [NoCall EXCEPT !.op = "serialize", !.self = s,
                                  !.error = res.error, !.data = res.data]
        /\ UNCHANGED <<responses, calls, pc, loc>>

(***************************************************************************)
(* Calls made one after another.                                           *)
(***************************************************************************)
Next ==
    \/ \E s \in Stmts, r \in Stmts : AddResponse(s, r)
    \/ \E s \in Stmts, text \in Texts : RemoveResponse(s, text)
    \/ \E s \in Stmts, r \in Stmts : GetResponseCount(s, r)
    \/ \E s \in Stmts : Serialize(s)

Spec == Init /\ [][Next]_vars

(***************************************************************************)
(* The extra_data field alone: add_extra_data and serialize on Statement   *)
(* instances, which read and write no Response row.                        *)
(***************************************************************************)
NextData ==
    \/ \E s \in Stmts, key \in PyKeys, value \in PyValues : AddExtraData(s, key, value)
    \/ \E s \in Stmts : Serialize(s)

SpecData == Init /\ [][NextData]_vars

(***************************************************************************)
(* Concurrent callers of add_response.  get_or_create first looks the row  *)
(* up and, when there is none, creates it; the two are separate database   *)
(* statements.  The caller then adds one to the occurrence of the object   *)
(* it created and saves it by primary key.                                 *)
(***************************************************************************)
AllIdle == \A p \in Procs : pc[p] = "idle"

Finished(p) == [NoLocals EXCEPT !.done = loc[p].done + 1]

ConcLookup(p, s, r) ==
    /\ pc[p] = "idle"
    /\ loc[p].done < MaxProcCalls
    /\ calls' = [calls EXCEPT ![s][r] = @ + 1]
    /\ IF Created(responses, s, r)
       THEN /\ pc' = [pc EXCEPT ![p] = "create"]
            /\ loc' = [loc EXCEPT ![p] = [@ EXCEPT !.self = s, !.response = r]]
            /\ UNCHANGED last
       ELSE /\ pc' = pc
            /\ loc' = [loc EXCEPT ![p] = Finished(p)]
            /\ last' = [NoCall EXCEPT !.op = "add_response", !.self = s, !.stmt = r,
                                      !.error = AddResponseError(responses, s, r)]
    /\ UNCHANGED <<responses, extra_data>>

ConcCreate(p) ==
    /\ pc[p] = "create"
    /\ responses' = Append(responses, NewRow(loc[p].self, loc[p].response))
    /\ loc' = [loc EXCEPT ![p] = [@ EXCEPT !.row = Len(responses) + 1,
                                           !.occurrence = Incremented(DefaultOccurrence)]]
    /\ pc' = [pc EXCEPT ![p] = "save"]
    /\ UNCHANGED <<extra_data, calls, last>>

ConcSave(p) ==
    /\ pc[p] = "save"
    /\ responses' = [responses EXCEPT ![loc[p].row].occurrence = loc[p].occurrence]
    /\ last' = [NoCall EXCEPT !.op = "add_response", !.self = loc[p].self,
                              !.stmt = loc[p].response]
    /\ loc' = [loc EXCEPT ![p] = Finished(p)]
    /\ pc' = [pc EXCEPT ![p] = "idle"]
    /\ UNCHANGED <<extra_data, calls>>

NextConc ==
    \/ \E p \in Procs, s \in Stmts, r \in Stmts : ConcLookup(p, s, r)
    \/ \E p \in Procs : ConcCreate(p)
    \/ \E p \in Procs : ConcSave(p)
    \/ \E s \in Stmts, r \in Stmts : GetResponseCount(s, r)

SpecConc == Init /\ [][NextConc]_vars

(***************************************************************************)
(* C1: after S.remove_response(t) returns, S has no Response row whose     *)
(* response statement has text t.                                          *)
(***************************************************************************)
C1_RemoveResponseRemoves ==
    last.op = "remove_response" =>
        MatchingText(responses, last.self, last.text) = {}

(***************************************************************************)
(* C2: S.get_response_count(R) returns the number of S.add_response(R)     *)
(* calls made so far.                                                      *)
(***************************************************************************)
C2_CountEqualsCalls ==
    last.op = "get_response_count" =>
        /\ last.error = "none"
        /\ last.retInt = calls[last.self][last.stmt]

(***************************************************************************)
(* C3: serialize never ends in an error and returns the statement's text,  *)
(* its decoded extra_data and one in_response_to entry per Response row of *)
(* the statement.                                                          *)
(***************************************************************************)
C3_SerializeReturnsDict ==
    last.op = "serialize" =>
        /\ last.error = "none"
        /\ last.data.text = StatementText(last.self)
        /\ last.data.extra_data = JsonLoads(extra_data[last.self])
        /\ last.data.in_response_to = Cardinality(InResponseTo(responses, last.self))

(***************************************************************************)
(* C4: when the calls run one after another, the table holds at most one   *)
(* Response row for each ordered pair (statement, response).               *)
(***************************************************************************)
C4_PairUnique ==
    \A i \in DOMAIN responses, j \in DOMAIN responses :
        /\ responses[i].statement = responses[j].statement
        /\ responses[i].response = responses[j].response
        => i = j

\* add_response was called twice for one pair, which has its one row
C4_Witness ==
    \E s \in Stmts, r \in Stmts :
        /\ calls[s][r] >= 2
        /\ Cardinality(MatchingPair(responses, s, r)) = 1

(***************************************************************************)
(* C5: remove_response returns True exactly when the statement has a       *)
(* Response row with the given response text at the time of the call, and  *)
(* when it returns True that row is no longer there afterwards.            *)
(***************************************************************************)
C5_RemoveResponseReturn ==
    [][last'.op = "remove_response" =>
          /\ last'.retBool = (MatchingText(responses, last'.self, last'.text) # {})
          /\ last'.retBool => MatchingText(responses', last'.self, last'.text) = {}]_vars

(***************************************************************************)
(* C6: when the calls run one after another, get_response_count ends       *)
(* without an error, returns 0 when no row of the statement has the given  *)
(* response text and the occurrence of the single matching row otherwise,  *)
(* and changes no record.                                                  *)
(***************************************************************************)
C6_GetResponseCountTotal ==
    [][last'.op = "get_response_count" =>
          LET m == MatchingText(responses, last'.self, StatementText(last'.stmt))
          IN  /\ last'.error = "none"
              /\ m = {} => last'.retInt = 0
              /\ m # {} => /\ Cardinality(m) = 1
                           /\ \A i \in m : last'.retInt = responses[i].occurrence
              /\ responses' = responses
              /\ extra_data' = extra_data]_vars

\* a count was returned for a pair that has a row
C6_Witness ==
    /\ last.op = "get_response_count"
    /\ last.retInt > 0
    /\ MatchingPair(responses, last.self, last.stmt) # {}

(***************************************************************************)
(* C7: what add_extra_data(key, value) leaves in extra_data.  Decoded is   *)
(* the dict json.loads gives for the field, the empty dict for a blank     *)
(* field.  ExtraDataAdded states the four parts of the claim for one call  *)
(* that took the field from text to text2.                                 *)
(***************************************************************************)
Decoded(text) == IF text.blank THEN <<>> ELSE JsonLoads(text)

JsonRoundTrips(pv) == JsonDecodeValue(JsonEncodeValue(pv)) = pv

ExtraDataAdded(text, text2, key, value) ==
    LET before == Decoded(text)
        after  == Decoded(text2)
    IN  /\ DictHas(after, key) /\ DictGet(after, key) = value
        /\ \A k2 \in DictKeys(before) \ {key} :
               DictHas(after, k2) /\ DictGet(after, k2) = DictGet(before, k2)
        /\ before = <<>> => DictItems(after) = {[k |-> key, v |-> value]}
        /\ AddExtraDataText(text2, key, value) = text2

\* C7 as stated: for every key and value, the decoded extra_data maps key to
\* value, keeps every other key's value, is exactly {key: value} when the
\* field was empty, and a second call with the same key and value changes
\* nothing.
C7_AddExtraDataAnyKey ==
    [][last'.op = "add_extra_data" =>
          ExtraDataAdded(extra_data[last'.self], extra_data'[last'.self],
                         last'.key, last'.value)]_vars

\* C7 amended: the same, for a key that is a str and a value that the JSON
\* encoding gives back unchanged.
C7_AddExtraDataStrKey ==
    [][(/\ last'.op = "add_extra_data"
        /\ last'.key.t = "str"
        /\ JsonRoundTrips(last'.value)) =>
          ExtraDataAdded(extra_data[last'.self], extra_data'[last'.self],
                         last'.key, last'.value)]_vars

\* a str key was set to a str value beside another key the field held
C7_Witness ==
    /\ last.op = "add_extra_data"
    /\ last.key.t = "str"
    /\ JsonRoundTrips(last.value)
    /\ DictKeys(Decoded(extra_data[last.self])) \ {last.key} # {}

(***************************************************************************)
(* C8: when callers run S.add_response(R) concurrently, a later            *)
(* S.get_response_count(R), made once they have all returned, finds        *)
(* exactly one Response row for (S, R) and returns a value instead of      *)
(* failing on several matching rows.                                       *)
(***************************************************************************)
C8_ConcurrentAddResponse ==
    (/\ AllIdle
     /\ last.op = "get_response_count"
     /\ calls[last.self][last.stmt] > 0) =>
        /\ Cardinality(MatchingPair(responses, last.self, last.stmt)) = 1
        /\ last.error = "none"

=============================================================================
